---- MODULE Spec2Model ----
(***************************************************************************)
(* Model of the marker clustering engine, src/src/lib/MarkerClustering.js, *)
(* together with the part of the host map it talks to: the idle listeners  *)
(* subscribed on each map, the cluster markers placed on the maps, the map *)
(* each leaf marker is shown on, and each map's projection.                *)
(*                                                                         *)
(* Environment assumption: window.naver is loaded (the constructor's early *)
(* return at lines 9-12 is not taken).                                     *)
(***************************************************************************)
EXTENDS Integers, Sequences, FiniteSets, Bags, TLC

\* ------------------------------------------------------------ bounds
\* Longest marker list handed to the constructor or to setMarkers.
MaxLen == 3
\* Most idle listeners of the engine subscribed at once (the engine never
\* removes the listener of a map it is switched away from, so the number
\* grows without this cap).
MaxHandlers == 2

\* ------------------------------------------------------------ universe
NULL == "null"
\* Under Spec no function is applied in isolation.
NoCall == [op |-> "none"]
Maps == {"A", "B"}
Markers == {"m1", "m2"}

\* marker.getPosition(): the geographic position of each leaf marker.
Position ==
    [m1 |-> [lat |-> 10, lng |-> 10],
     m2 |-> [lat |-> 10, lng |-> 40]]

\* map.getProjection() is null while the map is not initialised: the record
\* of scale 0 stands for that null.
NoProjection == [scale |-> 0, panX |-> 0, panY |-> 0, zoom |-> 0]
\* The projections (viewports) a map can be in: zoomed out, and zoomed in
\* and panned so that offsets are negative and one lies on a cell boundary.
\* zoom is map.getZoom() at that viewport: two levels apart for a scale of 4.
ZoomedOut == [scale |-> 1, panX |-> 0, panY |-> 0, zoom |-> 12]
ZoomedIn == [scale |-> 4, panX |-> -100, panY |-> -100, zoom |-> 14]
Views == {ZoomedOut, ZoomedIn}
\* The viewports each map goes through: map A zooms and can be without a
\* projection, map B stays zoomed out.
ViewsOf(map) == IF map = "A" THEN Views \cup {NoProjection} ELSE {ZoomedOut}

\* projection.fromCoordToOffset(position)
FromCoordToOffset(view, pos) ==
    [x |-> pos.lng * view.scale + view.panX,
     y |-> pos.lat * view.scale + view.panY]

\* The option objects handed to the constructor: none of the options, and
\* the options of RouteSearchPanel. 0 / FALSE / "omitted" stand for an
\* option that is left out (all are falsy in the source).
DefaultOptions ==
    [gridSize |-> 0, minClusterSize |-> 0, averageCenter |-> FALSE,
     icons |-> 0, indexGenerator |-> "omitted",
     maxZoom |-> 0, disableClickZoom |-> FALSE]
RouteSearchPanelOptions ==
    [gridSize |-> 120, minClusterSize |-> 2, averageCenter |-> FALSE,
     icons |-> 3, indexGenerator |-> "omitted",
     maxZoom |-> 13, disableClickZoom |-> FALSE]
OptionSets == {DefaultOptions, RouteSearchPanelOptions}

RECURSIVE SeqsUpTo(_)
SeqsUpTo(n) ==
    IF n = 0 THEN {<< >>}
    ELSE LET S == SeqsUpTo(n - 1)
         IN S \cup {Append(s, m) : s \in {t \in S : Len(t) = n - 1}, m \in Markers}
\* The marker lists a caller passes (duplicates allowed).
MarkerLists == SeqsUpTo(MaxLen)

Range(s) == {s[i] : i \in 1..Len(s)}

RECURSIVE BagOfSeq(_)
BagOfSeq(s) ==
    IF s = << >> THEN EmptyBag ELSE SetToBag({Head(s)}) (+) BagOfSeq(Tail(s))

\* ------------------------------------------------------------ state
VARIABLES
    constructed,   \* "no", "yes", or "threw" (the constructor threw)
    cfg,           \* _gridSize, _minClusterSize, _averageCenter, _icons, _indexGenerator
    _map,          \* this._map
    _markers,      \* this._markers
    _clusters,     \* this._clusters: the cluster markers the engine tracks
    _idleHandler,  \* this._idleHandler: 0 (undefined) or a listener id
    listeners,     \* host: the engine's idle listeners, [id, map]
    overlay,       \* host: bag of the cluster markers that are on a map
    leafMap,       \* host: marker.getMap() of every leaf marker
    proj,          \* host: map.getProjection() of every map
    lastPass,      \* history: how the last _recluster call ended
    assigned,      \* history: the list last given as options.markers or to setMarkers
    requested,     \* history: the map last given as options.map or to setMap
    call,          \* Functions: the function applied and its arguments
    returned       \* Functions: what it returned

engine == <<constructed, cfg, _map, _markers, _clusters, _idleHandler, listeners,
            overlay, leafMap, proj, lastPass, assigned, requested>>
vars == <<engine, call, returned>>

\* ------------------------------------------------------------ constructor
DefaultGridSize == 60
DefaultMinClusterSize == 2

\* Mutant of Configure: the caller's gridSize and minClusterSize are not
\* looked at.
ConfigureWithDefaults(options) ==
    [gridSize |-> DefaultGridSize,
     averageCenter |-> options.averageCenter,
     minClusterSize |-> DefaultMinClusterSize,
     icons |-> options.icons,
     indexGenerator |-> options.indexGenerator]

\* lines 16-20: options.x || default
Configure(options) ==
    [gridSize |-> IF options.gridSize = 0 THEN DefaultGridSize ELSE options.gridSize,
     averageCenter |-> options.averageCenter,
     minClusterSize |-> IF options.minClusterSize = 0 THEN DefaultMinClusterSize
                        ELSE options.minClusterSize,
     icons |-> options.icons,
     indexGenerator |-> options.indexGenerator]

\* Mutant of DefaultIndexGenerator: the tiers start above their thresholds
\* (count > 10 and so on).
DefaultIndexGeneratorAbove(count) ==
    IF count > 10 /\ count < 100 THEN 1
    ELSE IF count > 100 /\ count < 500 THEN 2
    ELSE IF count > 500 /\ count < 1000 THEN 3
    ELSE IF count > 1000 THEN 4
    ELSE 0

\* lines 21-35: the default indexGenerator
DefaultIndexGenerator(count) ==
    IF count >= 10 /\ count < 100 THEN 1
    ELSE IF count >= 100 /\ count < 500 THEN 2
    ELSE IF count >= 500 /\ count < 1000 THEN 3
    ELSE IF count >= 1000 THEN 4
    ELSE 0

\* this._indexGenerator(count); the caller's generator of OptionSets is
\* count -> count.
IndexGenerator(gen, count) ==
    IF gen = "omitted" THEN DefaultIndexGenerator(count) ELSE count

\* ------------------------------------------------------------ _recluster
\* Mutant of CellKey: the quotients are truncated toward zero (as x / g | 0
\* would) and not floored.
CellKeyTruncates(point, gridSize) ==
    LET Trunc(a) == IF a >= 0 THEN a \div gridSize ELSE -((-a) \div gridSize)
    IN ToString(Trunc(point.x)) \o "-" \o ToString(Trunc(point.y))

\* lines 123-126: the key of the cell of an offset
CellKey(point, gridSize) ==
    ToString(point.x \div gridSize) \o "-" \o ToString(point.y \div gridSize)

\* lines 128-132: clusters[key].push(marker), keys kept in insertion order
AddToCell(cs, key, marker) ==
    IF \E i \in 1..Len(cs) : cs[i].key = key
    THEN [i \in 1..Len(cs) |->
            IF cs[i].key = key
            THEN [cs[i] EXCEPT !.members = Append(@, marker)]
            ELSE cs[i]]
    ELSE Append(cs, [key |-> key, members |-> <<marker>>])

\* lines 112-133: the bucketing loop over markers[0 .. i-1]
RECURSIVE GroupMarkers(_, _, _, _)
GroupMarkers(markers, projection, gridSize, i) ==
    IF i = 0 THEN << >>
    ELSE AddToCell(GroupMarkers(markers, projection, gridSize, i - 1),
                   CellKey(FromCoordToOffset(projection, Position[markers[i]]), gridSize),
                   markers[i])

\* Mutant of ClearClusters: the cluster markers are taken off the map and
\* stay in this._clusters.
ClearClustersKeepsList(st) ==
    [st EXCEPT !.overlay = @ (-) BagOfSeq(st.clusters)]

\* Mutant of ClearClusters: this._clusters is emptied and its cluster markers
\* are left on the map.
ClearClustersKeepsMarkers(st) == [st EXCEPT !.clusters = << >>]

\* lines 200-205
ClearClusters(st) ==
    [st EXCEPT !.overlay = @ (-) BagOfSeq(st.clusters), !.clusters = << >>]

RECURSIVE SumLat(_)
SumLat(ms) == IF ms = << >> THEN 0 ELSE Position[Head(ms)].lat + SumLat(Tail(ms))
RECURSIVE SumLng(_)
SumLng(ms) == IF ms = << >> THEN 0 ELSE Position[Head(ms)].lng + SumLng(Tail(ms))

\* Mutant of Center: averageCenter is not looked at.
CenterOfFirstMember(members, averageCenter) ==
    [lat |-> Position[members[1]].lat, lng |-> Position[members[1]].lng, den |-> 1]

\* lines 153-163: the center, as the fractions lat/den and lng/den
Center(members, averageCenter) ==
    IF averageCenter
    THEN [lat |-> SumLat(members), lng |-> SumLng(members), den |-> Len(members)]
    ELSE [lat |-> Position[members[1]].lat, lng |-> Position[members[1]].lng, den |-> 1]

\* Mutant of IconIndex: the clamp of lines 167-169 is left out, so an index
\* beyond the table falls back to the first icon.
IconIndexNoClamp(c, count) ==
    LET generated == IndexGenerator(c.indexGenerator, count)
    IN IF generated \in 0..(c.icons - 1) THEN generated
       ELSE IF c.icons > 0 THEN 0
       ELSE -1

\* lines 165-171: the icon chosen, -1 when it is undefined
IconIndex(c, count) ==
    LET generated == IndexGenerator(c.indexGenerator, count)
        index == IF c.icons > 0 /\ generated >= c.icons THEN c.icons - 1 ELSE generated
    IN IF index \in 0..(c.icons - 1) THEN index
       ELSE IF c.icons > 0 THEN 0
       ELSE -1

\* Mutant of CreateCluster: the members are not hidden (lines 184-186 left out).
CreateClusterKeepsMembers(st, members, c, map) ==
    LET clusterMarker == [map |-> map, position |-> Center(members, c.averageCenter),
                          count |-> Len(members), icon |-> IconIndex(c, Len(members)),
                          members |-> members, click |-> "zoom"]
    IN IF IconIndex(c, Len(members)) = -1
       THEN [st EXCEPT !.threw = TRUE]
       ELSE [st EXCEPT !.overlay = @ (+) SetToBag({clusterMarker}),
                       !.clusters = Append(@, clusterMarker)]

\* lines 149-198: icon.content of an undefined icon throws a TypeError
\* before the cluster marker is constructed.
CreateCluster(st, members, c, map) ==
    LET count == Len(members)
        icon == IconIndex(c, count)
        clusterMarker == [map |-> map, position |-> Center(members, c.averageCenter),
                          count |-> count, icon |-> icon, members |-> members,
                          click |-> "zoom"]
    IN IF icon = -1
       THEN [st EXCEPT !.threw = TRUE]
       ELSE [st EXCEPT !.overlay = @ (+) SetToBag({clusterMarker}),
                       !.leafMap = [m \in Markers |->
                                      IF m \in Range(members) THEN NULL ELSE st.leafMap[m]],
                       !.clusters = Append(@, clusterMarker)]

\* Mutant of ClusterClick: the handler zooms in by two levels.
ClusterClickZoomsTwice(world, clusterMarker) ==
    [world EXCEPT
       !.host = [zoom |-> world.host.zoom + 2,
                 center |-> clusterMarker.position,
                 calls |-> world.host.calls
                           \o << <<"setZoom", clusterMarker.map, world.host.zoom + 2>>,
                                 <<"setCenter", clusterMarker.map, clusterMarker.position>> >>]]

\* lines 191-197: the click listener of a cluster marker, on the map and the
\* center it was created with. world.st is what the engine works on,
\* world.host the zoom and center of that map and the calls made on it; the
\* host takes the zoom it is given.
ClusterClick(world, clusterMarker) ==
    [world EXCEPT
       !.host = [zoom |-> world.host.zoom + 1,
                 center |-> clusterMarker.position,
                 calls |-> world.host.calls
                           \o << <<"setZoom", clusterMarker.map, world.host.zoom + 1>>,
                                 <<"setCenter", clusterMarker.map, clusterMarker.position>> >>]]

\* Mutant of ShowMarkers: the members of a small cell are left as they are.
ShowMarkersNot(st, members, map) == st

\* lines 142-144: clusters[key][m].setMap(map)
ShowMarkers(st, members, map) ==
    [st EXCEPT !.leafMap = [m \in Markers |->
                              IF m \in Range(members) THEN map ELSE st.leafMap[m]]]

\* Mutant of ReachesMinClusterSize: > for >=.
ExceedsMinClusterSize(members, c) == Len(members) > c.minClusterSize

\* line 137
ReachesMinClusterSize(members, c) == Len(members) >= c.minClusterSize

\* lines 136-146: the loop over the cells from cell k on; a throw ends it
RECURSIVE CreateClusters(_, _, _, _, _)
CreateClusters(st, cs, k, c, map) ==
    IF k > Len(cs) \/ st.threw THEN st
    ELSE CreateClusters(IF ReachesMinClusterSize(cs[k].members, c)
                        THEN CreateCluster(st, cs[k].members, c, map)
                        ELSE ShowMarkers(st, cs[k].members, map),
                        cs, k + 1, c, map)

\* Mutant of Recluster: the pass does not start with _clearClusters.
ReclusterWithoutClear(st, markers, map, projection, c) ==
    IF map = NULL THEN [st EXCEPT !.lastPass = "nomap"]
    ELSE IF projection = NoProjection THEN [st EXCEPT !.lastPass = "noproj"]
    ELSE LET cs == GroupMarkers(markers, projection, c.gridSize, Len(markers))
             r == CreateClusters(st, cs, 1, c, map)
         IN [r EXCEPT !.lastPass = IF r.threw THEN "threw" ELSE "complete"]

\* lines 92-147
Recluster(st, markers, map, projection, c) ==
    LET cleared == ClearClusters(st)
    IN IF map = NULL THEN [cleared EXCEPT !.lastPass = "nomap"]
       ELSE IF projection = NoProjection THEN [cleared EXCEPT !.lastPass = "noproj"]
       ELSE LET cs == GroupMarkers(markers, projection, c.gridSize, Len(markers))
                r == CreateClusters(cleared, cs, 1, c, map)
            IN [r EXCEPT !.lastPass = IF r.threw THEN "threw" ELSE "complete"]

\* The part of the state a call works on, as the call finds it.
Enter ==
    [clusters |-> _clusters, overlay |-> overlay, leafMap |-> leafMap,
     threw |-> FALSE, lastPass |-> lastPass]

Commit(r) ==
    /\ _clusters' = r.clusters
    /\ overlay' = r.overlay
    /\ leafMap' = r.leafMap
    /\ lastPass' = r.lastPass
    /\ UNCHANGED <<call, returned>>

\* ------------------------------------------------------------ map events
\* The id naver.maps.Event.addListener returns: one no listener has.
FreshHandler(ls) == CHOOSE h \in 1..(MaxHandlers + 1) : \A l \in ls : l.id # h

\* lines 79-86
BindMapEvents(ls, map) == ls \cup {[id |-> FreshHandler(ls), map |-> map]}

\* lines 88-90
UnbindMapEvents(ls, handler) == {l \in ls : l.id # handler}

ProjectionOf(map) == IF map = NULL THEN NoProjection ELSE proj[map]

\* Mutant of OnMapChanged: a detach shows every marker of the list again.
OnMapChangedShowsLeaves(st, newMap, markers, c) ==
    IF newMap # NULL
    THEN Recluster(st, markers, newMap, ProjectionOf(newMap), c)
    ELSE [ClearClusters(st) EXCEPT
            !.leafMap = [m \in Markers |->
                           IF m \in Range(markers) THEN _map ELSE st.leafMap[m]]]

\* Mutant of OnMapChanged: an attach binds the listener and runs no pass.
OnMapChangedNoPass(st, newMap, markers, c) ==
    IF newMap # NULL THEN st ELSE ClearClusters(st)

\* lines 69-77, with this._map already set to newMap
OnMapChanged(st, newMap, markers, c) ==
    IF newMap # NULL
    THEN Recluster(st, markers, newMap, ProjectionOf(newMap), c)
    ELSE ClearClusters(st)

ListenersAfterMapChanged(ls, newMap, handler) ==
    IF newMap # NULL THEN BindMapEvents(ls, newMap) ELSE UnbindMapEvents(ls, handler)

HandlerAfterMapChanged(ls, newMap, handler) ==
    IF newMap # NULL THEN FreshHandler(ls) ELSE handler

\* ------------------------------------------------------------ actions
\* Before new MarkerClustering(options): the caller's leaf markers are made
\* without a map, each map is at one of its viewports; the engine's fields
\* hold what the constructor sets before it looks at options.map.
Init ==
    /\ constructed = "no"
    /\ cfg = Configure(DefaultOptions)
    /\ _map = NULL
    /\ _markers = << >>
    /\ _clusters = << >>
    /\ _idleHandler = 0
    /\ listeners = {}
    /\ overlay = EmptyBag
    /\ leafMap = [m \in Markers |-> NULL]
    /\ proj \in [Maps -> Views \cup {NoProjection}]
    /\ \A m \in Maps : proj[m] \in ViewsOf(m)
    /\ lastPass = "none"
    /\ assigned = << >>
    /\ requested = NULL
    /\ call = NoCall
    /\ returned = NoCall

\* lines 6-43: new MarkerClustering(options)
Constructor(options, markers, map) ==
    /\ constructed = "no"
    /\ LET c == Configure(options)
           r == IF map # NULL THEN OnMapChanged(Enter, map, markers, c) ELSE Enter
       IN /\ cfg' = c
          /\ _markers' = markers
          /\ _map' = map
          /\ listeners' = IF map # NULL THEN BindMapEvents(listeners, map) ELSE listeners
          /\ _idleHandler' = IF map # NULL THEN FreshHandler(listeners) ELSE _idleHandler
          /\ Commit(r)
          /\ constructed' = IF r.threw THEN "threw" ELSE "yes"
    /\ assigned' = markers
    /\ requested' = map
    /\ UNCHANGED proj

\* Mutant of SetMap: a detach also empties this._markers.
SetMapEmptiesMarkers(map) ==
    /\ constructed = "yes"
    /\ IF map # _map
       THEN /\ map # NULL => Cardinality(listeners) < MaxHandlers
            /\ _map' = map
            /\ listeners' = ListenersAfterMapChanged(listeners, map, _idleHandler)
            /\ _idleHandler' = HandlerAfterMapChanged(listeners, map, _idleHandler)
            /\ Commit(OnMapChanged(Enter, map, _markers, cfg))
            /\ _markers' = IF map = NULL THEN << >> ELSE _markers
       ELSE /\ Commit(Enter)
            /\ UNCHANGED <<_map, listeners, _idleHandler, _markers>>
    /\ requested' = map
    /\ UNCHANGED <<constructed, cfg, proj, assigned>>

\* Mutant of SetMap: the test map !== oldMap of line 48 is left out.
SetMapAlwaysChanges(map) ==
    /\ constructed = "yes"
    /\ map # NULL => Cardinality(listeners) < MaxHandlers
    /\ _map' = map
    /\ listeners' = ListenersAfterMapChanged(listeners, map, _idleHandler)
    /\ _idleHandler' = HandlerAfterMapChanged(listeners, map, _idleHandler)
    /\ Commit(OnMapChanged(Enter, map, _markers, cfg))
    /\ requested' = map
    /\ UNCHANGED <<constructed, cfg, _markers, proj, assigned>>

\* lines 45-52. The caller holds the engine only when the constructor
\* returned (constructed = "yes"); an engine whose constructor threw lives on
\* through its idle listener alone.
SetMap(map) ==
    /\ constructed = "yes"
    /\ IF map # _map
       THEN /\ map # NULL => Cardinality(listeners) < MaxHandlers
            /\ _map' = map
            /\ listeners' = ListenersAfterMapChanged(listeners, map, _idleHandler)
            /\ _idleHandler' = HandlerAfterMapChanged(listeners, map, _idleHandler)
            /\ Commit(OnMapChanged(Enter, map, _markers, cfg))
       ELSE /\ Commit(Enter)
            /\ UNCHANGED <<_map, listeners, _idleHandler>>
    /\ requested' = map
    /\ UNCHANGED <<constructed, cfg, _markers, proj, assigned>>

\* Mutant of SetMarkers: the list is stored and no pass is run.
SetMarkersNoPass(markers) ==
    /\ constructed = "yes"
    /\ _markers' = markers
    /\ Commit(Enter)
    /\ assigned' = markers
    /\ UNCHANGED <<constructed, cfg, _map, _idleHandler, listeners, proj, requested>>

\* Mutant of SetMarkers: the markers of the list that is replaced are taken
\* off the map before the pass.
SetMarkersHidesPrevious(markers) ==
    /\ constructed = "yes"
    /\ _markers' = markers
    /\ Commit(Recluster([Enter EXCEPT !.leafMap = [m \in Markers |->
                                       IF m \in Range(_markers) THEN NULL ELSE leafMap[m]]],
                        markers, _map, ProjectionOf(_map), cfg))
    /\ assigned' = markers
    /\ UNCHANGED <<constructed, cfg, _map, _idleHandler, listeners, proj, requested>>

\* Mutant of SetMarkers: the markers of the new list are taken off the map
\* before the pass, whether or not the pass then clusters them.
SetMarkersHidesNew(markers) ==
    /\ constructed = "yes"
    /\ _markers' = markers
    /\ Commit(Recluster([Enter EXCEPT !.leafMap = [m \in Markers |->
                                       IF m \in Range(markers) THEN NULL ELSE leafMap[m]]],
                        markers, _map, ProjectionOf(_map), cfg))
    /\ assigned' = markers
    /\ UNCHANGED <<constructed, cfg, _map, _idleHandler, listeners, proj, requested>>

\* lines 58-61
SetMarkers(markers) ==
    /\ constructed = "yes"
    /\ _markers' = markers
    /\ Commit(Recluster(Enter, markers, _map, ProjectionOf(_map), cfg))
    /\ assigned' = markers
    /\ UNCHANGED <<constructed, cfg, _map, _idleHandler, listeners, proj, requested>>

\* The n callbacks of lines 83-85 subscribed on a map, run one after another.
\* A callback that throws leaves the state a repeated pass would leave, so
\* whether the host goes on to the next listener after a throw makes no
\* difference to the state reached.
RECURSIVE Callbacks(_, _, _)
Callbacks(st, n, projection) ==
    IF n = 0 THEN st
    ELSE Callbacks(Recluster([st EXCEPT !.threw = FALSE], _markers, _map, projection, cfg),
                   n - 1, projection)

\* A map comes to rest at a viewport (or, with NoProjection, before it has
\* one) and the host fires 'idle' on it: every listener subscribed on that
\* map runs.
Idle(map, view) ==
    /\ constructed # "no"
    /\ proj' = [proj EXCEPT ![map] = view]
    /\ Commit(Callbacks(Enter, Cardinality({l \in listeners : l.map = map}),
                        IF _map = NULL THEN NoProjection ELSE proj'[_map]))
    /\ UNCHANGED <<constructed, cfg, _map, _markers, _idleHandler, listeners,
                   assigned, requested>>

Next ==
    \/ \E o \in OptionSets, ms \in MarkerLists, m \in Maps \cup {NULL} :
          Constructor(o, ms, m)
    \/ \E m \in Maps \cup {NULL} : SetMap(m)
    \/ \E ms \in MarkerLists : SetMarkers(ms)
    \/ \E m \in Maps : \E v \in ViewsOf(m) : Idle(m, v)

Spec == Init /\ [][Next]_vars

\* ------------------------------------------------------------ functions
\* The second specification applies the engine's functions in isolation, to
\* arguments that Spec, with its short lists, does not reach: no engine is
\* constructed, and call and returned hold the last application.

\* Longest marker list a pass is applied to in isolation.
MaxPassLen == 5
PassLists == SeqsUpTo(MaxPassLen)
\* Longest icon table, and largest member count an icon is chosen for.
MaxIcons == 3
MaxCount == 1100
\* Highest zoom level a map is at when a cluster marker is clicked.
MaxZoomLevel == 20
\* The options a pass is applied with: those of OptionSets, options with
\* averageCenter, a table of two icons and the caller's own generator, and
\* options with a minClusterSize of 3.
PassOptionSets ==
    OptionSets \cup
    {[gridSize |-> 0, minClusterSize |-> 0, averageCenter |-> TRUE,
      icons |-> 2, indexGenerator |-> "count",
      maxZoom |-> 13, disableClickZoom |-> TRUE],
     [gridSize |-> 120, minClusterSize |-> 3, averageCenter |-> FALSE,
      icons |-> 1, indexGenerator |-> "omitted",
      maxZoom |-> 0, disableClickZoom |-> FALSE]}
\* A viewport at which m1 and m2 share a cell of 120 pixels and not one of 60.
Panned == [scale |-> 1, panX |-> 30, panY |-> 0, zoom |-> 12]
PassViews == ViewsOf("A") \cup {Panned}
\* Offsets a cell key is computed for: multiples of half a default cell, up
\* to MaxStep of them on either side of the origin.
MaxStep == 4
Offsets == {k * (DefaultGridSize \div 2) : k \in -MaxStep..MaxStep}
Points == [x : Offsets, y : Offsets]
GridSizes == {Configure(o).gridSize : o \in PassOptionSets}
\* The gridSize, minClusterSize and averageCenter options a caller gives,
\* 0 and FALSE standing for an omitted (or falsy) option.
GivenOptions ==
    {[DefaultOptions EXCEPT !.gridSize = g, !.minClusterSize = n, !.averageCenter = a] :
        g \in {0} \cup GridSizes \cup {DefaultGridSize \div 2},
        n \in 0..MaxLen, a \in BOOLEAN}


\* What _recluster finds in an engine that has run no pass, given leaf
\* markers made without a map.
BeforeFirstPass ==
    [clusters |-> << >>, overlay |-> EmptyBag, leafMap |-> [m \in Markers |-> NULL],
     threw |-> FALSE, lastPass |-> "none"]

\* lines 92-147: the first _recluster call of an engine on map A.
Pass(options, markers, view) ==
    /\ call' = [op |-> "pass", options |-> options, markers |-> markers, view |-> view]
    /\ returned' = Recluster(BeforeFirstPass, markers, "A", view, Configure(options))
    /\ UNCHANGED engine

\* lines 92-147: a further _recluster call of that engine, on the state the
\* first call left, with the list and the viewport of the time.
Repass(markers, view) ==
    /\ call.op = "pass"
    /\ Len(call.markers) <= MaxLen
    /\ call' = [op |-> "repass", first |-> call, before |-> returned,
                markers |-> markers, view |-> view]
    /\ returned' = Recluster([returned EXCEPT !.threw = FALSE], markers, "A", view,
                             Configure(call.options))
    /\ UNCHANGED engine

\* lines 165-171: the icon of a cluster of count members, chosen from a
\* table of icons entries with generator gen.
SelectIcon(icons, gen, count) ==
    /\ call' = [op |-> "icon", icons |-> icons, gen |-> gen, count |-> count]
    /\ returned' = [generated |-> IndexGenerator(gen, count),
                    index |-> IconIndex([cfg EXCEPT !.icons = icons, !.indexGenerator = gen],
                                        count)]
    /\ UNCHANGED engine

\* lines 123-126: the cell keys of two projected offsets.
CellKeys(p, q, gridSize) ==
    /\ call' = [op |-> "key", p |-> p, q |-> q, gridSize |-> gridSize]
    /\ returned' = [p |-> CellKey(p, gridSize), q |-> CellKey(q, gridSize)]
    /\ UNCHANGED engine

\* lines 21-35: the default generator applied to a count and to the next one.
Tier(count) ==
    /\ call' = [op |-> "tier", count |-> count]
    /\ returned' = [tier |-> DefaultIndexGenerator(count),
                    next |-> DefaultIndexGenerator(count + 1)]
    /\ UNCHANGED engine

\* lines 191-197: a click on cluster marker i of those the pass built, the
\* map being at the given zoom and centered elsewhere.
Click(i, zoom) ==
    /\ call.op = "pass"
    /\ i \in 1..Len(returned.clusters)
    /\ call' = [op |-> "click", first |-> call, before |-> returned,
                cluster |-> i, zoom |-> zoom]
    /\ returned' = ClusterClick([st |-> returned,
                                 host |-> [zoom |-> zoom, center |-> "elsewhere",
                                           calls |-> << >>]],
                                returned.clusters[i])
    /\ UNCHANGED engine

\* lines 16-20: the configuration the constructor stores for given options.
Construct(options) ==
    /\ call' = [op |-> "configure", options |-> options]
    /\ returned' = Configure(options)
    /\ UNCHANGED engine

FnInit ==
    /\ Init
    /\ \A m \in Maps : proj[m] = ZoomedOut

\* A behaviour applies one function to one argument; after a pass, a further
\* pass may follow.
FnNext ==
    \/ /\ call = NoCall
       /\ \/ \E o \in PassOptionSets, ms \in PassLists, v \in PassViews : Pass(o, ms, v)
          \/ \E n \in 0..MaxIcons, g \in {"omitted", "count"}, k \in 0..MaxCount :
                SelectIcon(n, g, k)
          \/ \E p \in Points, q \in Points, g \in GridSizes : CellKeys(p, q, g)
          \/ \E k \in 0..MaxCount : Tier(k)
          \/ \E o \in GivenOptions : Construct(o)
    \/ \E ms \in MarkerLists, v \in ViewsOf("A") : Repass(ms, v)
    \/ \E i \in 1..MaxPassLen, z \in 0..MaxZoomLevel : Click(i, z)

Functions == FnInit /\ [][FnNext]_vars

\* ------------------------------------------------------------ claims
\* The engine is ATTACHED and its last pass ran to its end.
PassCompleted == _map # NULL /\ lastPass = "complete"

\* The cluster markers on a map that have marker m as a member.
NoCluster(m) == \A c \in BagToSet(overlay) : m \notin Range(c.members)
ExactlyOneCluster(m) ==
    \E c \in BagToSet(overlay) :
        /\ m \in Range(c.members)
        /\ CopiesIn(c, overlay) = 1
        /\ \A d \in BagToSet(overlay) : m \in Range(d.members) => d = c
HiddenMember(m) == leafMap[m] = NULL /\ ExactlyOneCluster(m)
VisibleSingleton(m) == leafMap[m] # NULL /\ NoCluster(m)

\* C1 as stated: in every reachable state each marker of the current marker
\* set is either a hidden member of exactly one cluster marker on the map or
\* a visible singleton, never both and never neither.
C1_EveryStatePartition ==
    \A m \in Range(_markers) : HiddenMember(m) # VisibleSingleton(m)

\* C1 as amended: whenever the engine is ATTACHED and its last pass ran to
\* completion, each marker of the current set is either a hidden member of
\* exactly one cluster marker on the map or a visible singleton; and in every
\* reachable state a marker of the current set is a member of at most one
\* cluster marker on the map and is hidden if it is a member of one.
C1_PartitionAfterCompletedPass ==
    \A m \in Range(_markers) :
        /\ NoCluster(m) \/ ExactlyOneCluster(m)
        /\ ~NoCluster(m) => leafMap[m] = NULL
        /\ PassCompleted => (HiddenMember(m) # VisibleSingleton(m))

C1_Witness ==
    /\ PassCompleted
    /\ \E m, n \in Range(_markers) : HiddenMember(m) /\ VisibleSingleton(n)

ClusterMembers == UNION {Range(_clusters[i].members) : i \in 1..Len(_clusters)}
ShownLeaves == {m \in Range(_markers) : leafMap[m] = _map}

\* C2: after a pass that ran to completion while ATTACHED, the members of the
\* clusters the pass created together with the leaf markers it shows on the
\* map are exactly the current marker set, every member of a cluster is
\* hidden, and no marker is both a member and shown.
C2_PartitionComplete ==
    PassCompleted =>
        /\ ClusterMembers \cup ShownLeaves = Range(_markers)
        /\ \A m \in ClusterMembers : leafMap[m] = NULL
        /\ ClusterMembers \cap {m \in Markers : leafMap[m] # NULL} = {}

C2_Witness ==
    /\ PassCompleted
    /\ Cardinality(ClusterMembers) = 1
    /\ ShownLeaves # {}
    /\ ClusterMembers \cup ShownLeaves = Markers

\* The cells of the current marker list under the current viewport.
CurrentCells == GroupMarkers(_markers, proj[_map], cfg.gridSize, Len(_markers))
ClustersOfCell(cell) ==
    {i \in 1..Len(_clusters) :
        _clusters[i].members = cell.members /\ BagIn(_clusters[i], overlay)}

\* C3: after a completed pass a cluster marker exists for a cell if and only
\* if the cell has at least minClusterSize entries, there is no other cluster
\* marker, and every member of a smaller cell is shown on the current map.
C3_Threshold ==
    PassCompleted =>
        /\ \A k \in 1..Len(CurrentCells) :
              LET cell == CurrentCells[k]
              IN /\ (ClustersOfCell(cell) # {}) <=> (Len(cell.members) >= cfg.minClusterSize)
                 /\ Len(cell.members) < cfg.minClusterSize =>
                       \A m \in Range(cell.members) : leafMap[m] = _map
        /\ \A i \in 1..Len(_clusters) :
              \E k \in 1..Len(CurrentCells) : i \in ClustersOfCell(CurrentCells[k])

C3_Witness ==
    /\ PassCompleted
    /\ \E k, j \in 1..Len(CurrentCells) :
          /\ Len(CurrentCells[k].members) = cfg.minClusterSize
          /\ ClustersOfCell(CurrentCells[k]) # {}
          /\ Len(CurrentCells[j].members) = cfg.minClusterSize - 1
          /\ ClustersOfCell(CurrentCells[j]) = {}

\* C4 as stated: whenever the engine is DETACHED, no idle listener of the
\* engine is subscribed on any map and no cluster marker is on a map.
C4_DetachedIsClean ==
    (constructed # "no" /\ _map = NULL) => (listeners = {} /\ overlay = EmptyBag)

\* C5 as stated: while the engine is ATTACHED exactly one idle listener of
\* the engine is subscribed, and it is subscribed on the current map.
C5_OneListenerOnCurrentMap ==
    _map # NULL => \E l \in listeners : listeners = {l} /\ l.map = _map

\* C6 as stated, for the pass of a settle event: when the engine stays
\* attached to its map and keeps its list, a pass that finds the projection
\* unavailable changes neither the cluster markers on the map nor the
\* visibility of any leaf marker.
C6_AbortChangesNothing ==
    [][(_map # NULL /\ _map' = _map /\ _markers' = _markers /\ lastPass' = "noproj") =>
            (overlay' = overlay /\ leafMap' = leafMap)]_vars

\* C7 as stated: no call of the engine ends by an exception; with an empty
\* icon table a cell that reaches minClusterSize is skipped and the pass
\* goes on.
C7_NothingThrown == lastPass # "threw" /\ constructed # "threw"

\* C8: setMap(null) from ATTACHED leaves the visibility of every leaf marker
\* as it was.
C8_DetachKeepsLeafVisibility ==
    [][(_map # NULL /\ _map' = NULL) => leafMap' = leafMap]_vars

\* A detached engine that was attached (a listener was bound), whose last
\* pass completed, with a member still hidden and a singleton still shown.
C8_Witness ==
    /\ constructed = "yes" /\ _map = NULL /\ _idleHandler # 0
    /\ lastPass = "complete"
    /\ _clusters = << >>
    /\ \E m, n \in Range(_markers) : leafMap[m] = NULL /\ leafMap[n] # NULL

\* The member lists of the cells of a list that reach minClusterSize, in the
\* order of the cells.
RECURSIVE ClusteredCells(_, _)
ClusteredCells(cs, k) ==
    IF k = 0 THEN << >>
    ELSE IF Len(cs[k].members) >= cfg.minClusterSize
         THEN Append(ClusteredCells(cs, k - 1), cs[k].members)
         ELSE ClusteredCells(cs, k - 1)

\* C9: getMarkers() is the list last assigned; and while ATTACHED a pass has
\* run on that list: when it ran to completion, the clusters are those of
\* the cells of the assigned list under the current viewport, their members
\* are hidden and every other marker of the list is shown on the current map.
C9_SetMarkersReplacesAndReclusters ==
    /\ _markers = assigned
    /\ _map # NULL => lastPass \in {"complete", "noproj", "threw"}
    /\ (_map # NULL /\ proj[_map] = NoProjection) => lastPass = "noproj"
    /\ PassCompleted =>
          LET cs == GroupMarkers(assigned, proj[_map], cfg.gridSize, Len(assigned))
              clustered == ClusteredCells(cs, Len(cs))
          IN /\ [i \in 1..Len(_clusters) |-> _clusters[i].members] = clustered
             /\ \A m \in Range(assigned) :
                   leafMap[m] = IF \E i \in 1..Len(clustered) : m \in Range(clustered[i])
                                THEN NULL ELSE _map

\* A completed pass on a list that setMarkers assigned: a marker of an
\* earlier list is still shown, which only a replaced list leaves behind.
C9_Witness ==
    /\ constructed = "yes" /\ PassCompleted
    /\ _clusters # << >>
    /\ \E m \in Markers \ Range(_markers) : leafMap[m] # NULL

\* C10: getMap() is the map last given to setMap or as the map option, null
\* before any was given; and while ATTACHED a pass has run since the attach,
\* which, when it ran to completion, put its clusters and the singletons on
\* the map the engine is attached to.
C10_SetMapAttachesAndReclusters ==
    /\ _map = requested
    /\ constructed = "no" => _map = NULL
    /\ _map # NULL => lastPass \in {"complete", "noproj", "threw"}
    /\ PassCompleted =>
          /\ \A i \in 1..Len(_clusters) :
                _clusters[i].map = _map /\ BagIn(_clusters[i], overlay)
          /\ \A m \in Range(_markers) : leafMap[m] \in {NULL, _map}

\* The engine was attached to map A, then directly to map B, and the pass of
\* that attach clustered the list on B.
C10_Witness ==
    /\ constructed = "yes" /\ requested = "B" /\ PassCompleted
    /\ \E l \in listeners : l.map = "A"
    /\ _clusters # << >>
    /\ \A i \in 1..Len(_clusters) : _clusters[i].map = "B"

\* The cells of the pass that call describes (none when the pass stops at
\* the projection check), and the cluster markers it returned with.
CellsOfCall ==
    IF call.view = NoProjection THEN << >>
    ELSE GroupMarkers(call.markers, call.view,
                      Configure(IF call.op = "pass" THEN call.options
                                ELSE call.first.options).gridSize,
                      Len(call.markers))

\* C11: no cluster marker survives a pass: after a pass that followed
\* another, the cluster markers on the map are exactly those of the list,
\* each of them was built by this pass from a cell of this pass, and no cell
\* has two of them (a survivor of the earlier pass would be a second one, or
\* one of a cell this pass does not have).
C11_NoClusterSurvivesAPass ==
    call.op = "repass" =>
        /\ returned.overlay = BagOfSeq(returned.clusters)
        /\ \A i \in 1..Len(returned.clusters) :
              /\ \E k \in 1..Len(CellsOfCall) :
                     returned.clusters[i].members = CellsOfCall[k].members
              /\ \A j \in 1..Len(returned.clusters) :
                     returned.clusters[j].members = returned.clusters[i].members => j = i

\* A pass that built cluster markers, after a pass on another list that had
\* built cluster markers.
C11_Witness ==
    /\ call.op = "repass"
    /\ call.before.clusters # << >>
    /\ returned.clusters # << >>
    /\ call.first.markers # call.markers
    /\ call.first.view # call.view

\* A settle event of the current map at which the projection, unavailable
\* at the pass before, is available; list and attachment as they were.
SettleAfterAbort ==
    /\ constructed # "no"
    /\ _map # NULL /\ _map' = _map /\ _markers' = _markers
    /\ lastPass = "noproj"
    /\ proj[_map] = NoProjection /\ proj'[_map] # NoProjection

\* C12: after a pass that stopped because the projection was unavailable,
\* the next settle event at which the projection is available runs a full
\* pass: it ends with every marker of the list either a hidden member of
\* exactly one cluster marker or a visible singleton.
C12_SettleAfterAbortRestoresPartition ==
    [][SettleAfterAbort => (PassCompleted /\ C1_EveryStatePartition)']_vars

\* setMap(map) on an engine that was attached and then detached by
\* setMap(null), the map having its projection.
ReattachAfterDetach ==
    /\ constructed = "yes"
    /\ _map = NULL /\ _idleHandler # 0
    /\ _map' # NULL /\ proj'[_map'] # NoProjection

\* C13: a pass does not depend on the visibility the leaf markers had before
\* it: the pass run by setMap(map) after setMap(null) ends with no cluster
\* marker of before the detach and with every marker of the list either a
\* hidden member of exactly one cluster marker or a visible singleton (the
\* markers the detach left hidden are shown again when their cell is below
\* minClusterSize).
C13_ReattachRestoresPartition ==
    [][ReattachAfterDetach =>
          (PassCompleted /\ C1_EveryStatePartition /\ overlay = BagOfSeq(_clusters))']_vars

\* C14: while ATTACHED with an empty marker list (setMarkers with an empty
\* list has returned, or the engine was built with one), no error was
\* raised, no cluster marker is tracked or on a map, and no leaf marker is
\* on a map: zero markers are rendered.
C14_EmptyListRendersNothing ==
    (constructed = "yes" /\ _map # NULL /\ _markers = << >>) =>
        /\ lastPass # "threw"
        /\ _clusters = << >> /\ overlay = EmptyBag
        /\ \A m \in Markers : leafMap[m] = NULL

\* The configuration of the pass that call describes.
ConfigOfCall == Configure(IF call.op = "pass" THEN call.options ELSE call.first.options)

\* C15: with a non-empty icon table, an index of the generator that is
\* icons.length or more selects the last icon of the table and an index
\* within the table selects that entry; and every cluster marker a pass
\* renders carries the icon so chosen for its count.
C15_TierIndexClamped ==
    /\ (call.op = "icon" /\ call.icons > 0) =>
          /\ returned.generated >= call.icons => returned.index = call.icons - 1
          /\ returned.generated \in 0..(call.icons - 1) => returned.index = returned.generated
    /\ (call.op = "pass" /\ call.options.icons > 0) =>
          \A i \in 1..Len(returned.clusters) :
              LET cm == returned.clusters[i]
                  generated == IndexGenerator(call.options.indexGenerator, cm.count)
              IN cm.icon = IF generated >= call.options.icons
                           THEN call.options.icons - 1 ELSE generated

\* The default generator overshoots a table of three icons (a count of 500
\* or more), and the last icon is chosen.
C15_Witness ==
    /\ call.op = "icon" /\ call.gen = "omitted"
    /\ call.icons = 3 /\ returned.generated >= call.icons
    /\ returned.index = call.icons - 1

\* C16: the engine owns no leaf marker. A step changes the marker list only
\* when it is the constructor or setMarkers storing the caller's list; no
\* leaf marker comes into being or goes away; and a step changes a leaf
\* marker only by showing it on the engine's map or hiding it, and only if
\* the marker is in the list. What the engine puts on a map and takes off
\* it besides are cluster markers, each tracked in this._clusters when made.
C16_LeafMarkersNotOwned ==
    [][/\ _markers' # _markers =>
             \/ constructed = "no"
             \/ \E ms \in MarkerLists : SetMarkers(ms)
       /\ DOMAIN leafMap' = DOMAIN leafMap
       /\ \A m \in Markers :
             leafMap'[m] # leafMap[m] =>
                 m \in Range(_markers') /\ leafMap'[m] \in {NULL, _map'}
       /\ \A c \in BagToSet(overlay') :
             CopiesIn(c, overlay') > CopiesIn(c, overlay) =>
                 \E i \in 1..Len(_clusters') : _clusters'[i] = c]_vars

\* The engine has been moved from one map to another and passes have run:
\* the list still has its duplicate entry, some of its markers are shown and
\* others are hidden in a cluster marker.
C16_Witness ==
    /\ constructed = "yes" /\ PassCompleted
    /\ Cardinality(listeners) > 1
    /\ Len(_markers) > Cardinality(Range(_markers))
    /\ _clusters # << >>
    /\ \E m \in Range(_markers) : leafMap[m] # NULL

\* (floor(x / gridSize), floor(y / gridSize)) of a projected offset.
FloorPair(point, gridSize) == <<point.x \div gridSize, point.y \div gridSize>>
\* The cells of CellsOfCall that hold entry i of the list of the call.
CellsHolding(i) ==
    {k \in 1..Len(CellsOfCall) : call.markers[i] \in Range(CellsOfCall[k].members)}
RECURSIVE CellSizes(_, _)
CellSizes(cs, k) == IF k = 0 THEN 0 ELSE Len(cs[k].members) + CellSizes(cs, k - 1)

\* C17: two offsets get the same cell key if and only if they have the same
\* pair of floored quotients, negative ones included; and in a pass every
\* entry of the list is in exactly one cell, two entries being in the same
\* cell if and only if their offsets have the same pair.
C17_SameCellIffSameFloorPair ==
    /\ call.op = "key" =>
          (returned.p = returned.q
             <=> FloorPair(call.p, call.gridSize) = FloorPair(call.q, call.gridSize))
    /\ (call.op = "pass" /\ call.view # NoProjection) =>
          /\ CellSizes(CellsOfCall, Len(CellsOfCall)) = Len(call.markers)
          /\ \A i \in 1..Len(call.markers) : Cardinality(CellsHolding(i)) = 1
          /\ \A i, j \in 1..Len(call.markers) :
                 CellsHolding(i) = CellsHolding(j)
                    <=> FloorPair(FromCoordToOffset(call.view, Position[call.markers[i]]),
                                  ConfigOfCall.gridSize)
                        = FloorPair(FromCoordToOffset(call.view, Position[call.markers[j]]),
                                    ConfigOfCall.gridSize)

\* Two offsets of different cells that a sum of the quotients, or a key
\* without the sign, would put together, one of them on a cell boundary and
\* with negative quotients.
C17_Witness ==
    /\ call.op = "key"
    /\ FloorPair(call.p, call.gridSize) = <<-1, 2>>
    /\ FloorPair(call.q, call.gridSize) = <<1, -2>>
    /\ call.q.y = -2 * call.gridSize
    /\ returned.p # returned.q

\* The pass of call has the list and the viewport of the pass before it
\* (the configuration of an engine never changes).
SameInputsAgain ==
    /\ call.op = "repass"
    /\ call.markers = call.first.markers
    /\ call.view = call.first.view

\* C18: a pass that follows a pass with the same list, viewport and
\* configuration leaves what that pass left: the same cluster markers in the
\* same order (same member lists, counts, centers and icons), the same ones
\* on the map, the same visibility of every leaf marker, and the same end.
C18_ReclusterIdempotent ==
    SameInputsAgain =>
        /\ returned.clusters = call.before.clusters
        /\ returned.overlay = call.before.overlay
        /\ returned.leafMap = call.before.leafMap
        /\ returned.lastPass = call.before.lastPass

\* A repeated pass that ran to its end with a cluster marker and a visible
\* singleton.
C18_Witness ==
    /\ SameInputsAgain
    /\ returned.lastPass = "complete"
    /\ call.before.clusters # << >>
    /\ \E m \in Range(call.markers) : returned.leafMap[m] # NULL

RECURSIVE SumOfCounts(_)
SumOfCounts(cms) == IF cms = << >> THEN 0 ELSE Head(cms).count + SumOfCounts(Tail(cms))
\* The entries of the list of the call whose marker a pass left visible.
VisibleEntries == {i \in 1..Len(call.markers) : returned.leafMap[call.markers[i]] # NULL}
\* The cluster markers returned that stand for cell k of the pass.
ClusterMarkersOf(k) ==
    {i \in 1..Len(returned.clusters) : returned.clusters[i].members = CellsOfCall[k].members}

\* C19: after a pass that bucketed the list, the count of every cluster
\* marker is the number of entries of its member list, duplicates counted;
\* a cell of minClusterSize entries or more (five markers in one cell, or
\* one marker listed twice) has exactly one cluster marker, with that count,
\* and none of its markers is visible; a cell below minClusterSize has no
\* cluster marker and its markers are visible; and the counts and the
\* visible entries add up to the length of the list.
C19_CountIsNumberOfEntries ==
    (call.op = "pass" /\ call.view # NoProjection) =>
        /\ \A i \in 1..Len(returned.clusters) :
               returned.clusters[i].count = Len(returned.clusters[i].members)
        /\ \A k \in 1..Len(CellsOfCall) :
               LET members == CellsOfCall[k].members
               IN IF Len(members) >= ConfigOfCall.minClusterSize
                  THEN /\ \E i \in ClusterMarkersOf(k) :
                             /\ ClusterMarkersOf(k) = {i}
                             /\ returned.clusters[i].count = Len(members)
                       /\ \A m \in Range(members) : returned.leafMap[m] = NULL
                  ELSE /\ ClusterMarkersOf(k) = {}
                       /\ \A m \in Range(members) : returned.leafMap[m] # NULL
        /\ SumOfCounts(returned.clusters) + Cardinality(VisibleEntries) = Len(call.markers)

\* C20: the default indexGenerator gives tier 0 below 10, 1 from 10 to 99,
\* 2 from 100 to 499, 3 from 500 to 999 and 4 from 1000 on (so 1 for 12),
\* and it never decreases from a count to the next, hence is monotone.
C20_DefaultTiers ==
    call.op = "tier" =>
        /\ returned.tier = CASE call.count < 10 -> 0
                              [] call.count >= 10 /\ call.count < 100 -> 1
                              [] call.count >= 100 /\ call.count < 500 -> 2
                              [] call.count >= 500 /\ call.count < 1000 -> 3
                              [] call.count >= 1000 -> 4
        /\ call.count = 12 => returned.tier = 1
        /\ returned.tier <= returned.next

\* The generator applied at the last threshold: tier 3 at 999, 4 at 1000.
C20_Witness ==
    /\ call.op = "tier" /\ call.count = 999
    /\ returned.tier = 3 /\ returned.next = 4

\* C21: a click on a cluster marker first sets the zoom of its map to the
\* zoom the map is at plus one and then sets the center of the map to the
\* center the cluster marker was created with; the list, the cluster markers
\* and the visibility of the leaf markers are as before the click.
C21_ClickZoomsInByOne ==
    call.op = "click" =>
        LET clicked == call.before.clusters[call.cluster]
        IN /\ returned.host.calls = << <<"setZoom", clicked.map, call.zoom + 1>>,
                                       <<"setCenter", clicked.map, clicked.position>> >>
           /\ returned.host.zoom = call.zoom + 1
           /\ returned.host.center = Center(clicked.members, ConfigOfCall.averageCenter)
           /\ returned.st = call.before

\* A click on the second of two cluster markers, whose center is the mean of
\* its members.
C21_Witness ==
    /\ call.op = "click" /\ call.cluster = 2
    /\ call.first.options.averageCenter
    /\ returned.host.zoom = call.zoom + 1
    /\ returned.host.center = call.before.clusters[2].position

\* How many entries of a member list are marker m.
Occurrences(m, members) == Cardinality({i \in 1..Len(members) : members[i] = m})
RECURSIVE LatOfEntries(_, _)
LatOfEntries(S, members) ==
    IF S = {} THEN 0
    ELSE LET m == CHOOSE x \in S : TRUE
         IN Occurrences(m, members) * Position[m].lat + LatOfEntries(S \ {m}, members)
RECURSIVE LngOfEntries(_, _)
LngOfEntries(S, members) ==
    IF S = {} THEN 0
    ELSE LET m == CHOOSE x \in S : TRUE
         IN Occurrences(m, members) * Position[m].lng + LngOfEntries(S \ {m}, members)
\* The first entry of the list of the call that is a marker of the members.
FirstInList(members) ==
    call.markers[CHOOSE i \in 1..Len(call.markers) :
                    /\ call.markers[i] \in Range(members)
                    /\ \A j \in 1..(i - 1) : call.markers[j] \notin Range(members)]

\* C22: the position of every cluster marker a pass builds is, with
\* averageCenter, the sum of the latitudes (longitudes) of all entries of its
\* cell divided by their number, and without it the position of the entry of
\* the cell that comes first in the marker list.
C22_ClusterCenter ==
    call.op = "pass" =>
        \A i \in 1..Len(returned.clusters) :
            LET cm == returned.clusters[i]
            IN IF call.options.averageCenter
               THEN /\ cm.position.den = Len(cm.members)
                    /\ cm.position.lat = LatOfEntries(Markers, cm.members)
                    /\ cm.position.lng = LngOfEntries(Markers, cm.members)
               ELSE /\ cm.position.den = 1
                    /\ cm.position.lat = Position[FirstInList(cm.members)].lat
                    /\ cm.position.lng = Position[FirstInList(cm.members)].lng

\* A cluster marker of three entries, two of them the same marker, placed
\* at the mean of the three positions.
C22_Witness ==
    /\ call.op = "pass" /\ call.options.averageCenter
    /\ call.markers = <<"m2", "m1", "m2">>
    /\ Len(returned.clusters) = 1
    /\ returned.clusters[1].position = [lat |-> 30, lng |-> 90, den |-> 3]

\* The partition a pass left: the member entries and the count of each
\* cluster marker, whatever the order of the members and of the cluster
\* markers, and the leaf markers that are visible.
PartitionOf(st) ==
    [clusters |-> BagOfSeq([i \in 1..Len(st.clusters) |->
                              [members |-> BagOfSeq(st.clusters[i].members),
                               count |-> st.clusters[i].count]]),
     visible |-> {m \in Markers : st.leafMap[m] # NULL}]
\* The lists with the entries of the list of the call in any order.
Reorderings(markers) == {p \in PassLists : BagOfSeq(p) = BagOfSeq(markers)}

\* C23: a pass on any permutation of the marker list, at the same viewport
\* and with the same configuration, leaves the same partition: the same
\* members and count for each cluster marker and the same visible leaf
\* markers.
C23_OrderIndependent ==
    call.op = "pass" =>
        \A p \in Reorderings(call.markers) :
            PartitionOf(Recluster(BeforeFirstPass, p, "A", call.view, ConfigOfCall))
              = PartitionOf(returned)

\* The entries of the list of the call that fall into the cell of entry i
\* when cells are g pixels wide.
EntriesInCellOf(i, g) ==
    {j \in 1..Len(call.markers) :
        FloorPair(FromCoordToOffset(call.view, Position[call.markers[j]]), g)
          = FloorPair(FromCoordToOffset(call.view, Position[call.markers[i]]), g)}

\* C24: the constructor stores 60 for an omitted gridSize, 2 for an omitted
\* minClusterSize and false for an omitted averageCenter, and the caller's
\* gridSize and minClusterSize otherwise (0 is an omitted option here: the
\* source takes the default for every falsy value); and a pass that runs to
\* its end clusters by cells of that width and with that threshold.
C24_DefaultsAndGivenOptions ==
    /\ call.op = "configure" =>
          /\ returned.gridSize = IF call.options.gridSize = 0 THEN 60
                                 ELSE call.options.gridSize
          /\ returned.minClusterSize = IF call.options.minClusterSize = 0 THEN 2
                                       ELSE call.options.minClusterSize
          /\ returned.averageCenter = call.options.averageCenter
    /\ (call.op = "pass" /\ returned.lastPass = "complete") =>
          LET g == IF call.options.gridSize = 0 THEN 60 ELSE call.options.gridSize
              n == IF call.options.minClusterSize = 0 THEN 2
                   ELSE call.options.minClusterSize
          IN \A i \in 1..Len(call.markers) :
                returned.leafMap[call.markers[i]] = NULL
                   <=> Cardinality(EntriesInCellOf(i, g)) >= n

\* A pass with the caller's gridSize of 120 and minClusterSize of 3: m1 and
\* m2, in different cells of 60 pixels, are in one cluster marker of three.
C24_Witness ==
    /\ call.op = "pass" /\ call.view = Panned
    /\ call.options.gridSize = 120 /\ call.options.minClusterSize = 3
    /\ call.markers = <<"m1", "m2", "m2">>
    /\ Len(returned.clusters) = 1 /\ returned.clusters[1].count = 3

\* The engine RouteSearchPanel's category effect holds when it runs again: one
\* made with the panel's options on a map, with the one listener its
\* constructor bound (RouteSearchPanel.tsx lines 154-181).
PanelEngine ==
    /\ constructed = "yes"
    /\ cfg = Configure(RouteSearchPanelOptions)
    /\ _map # NULL
    /\ Cardinality(listeners) = 1

\* RouteSearchPanel.tsx lines 87-90: the effect clears the previous run with
\* clusterer.setMap(null) and nothing else.
EffectClears == PanelEngine /\ _map' = NULL

\* C25: when the category effect of RouteSearchPanel runs again, its clearing
\* step leaves no cluster marker and no leaf marker of the previous run on a
\* map.
C25_EffectClearsPreviousRun ==
    [][EffectClears => (overlay' = EmptyBag /\ \A m \in Markers : leafMap'[m] = NULL)]_vars

\* C26: in every reachable state the cluster markers on a map are exactly
\* those of this._clusters, each on the map the engine is bound to: setMap
\* (also from one map to another), setMarkers and the passes of idle events
\* leave no cluster marker on a map that the engine no longer tracks.
C26_NoOrphanClusterMarker ==
    /\ overlay = BagOfSeq(_clusters)
    /\ \A i \in 1..Len(_clusters) : _clusters[i].map = _map

\* The engine was moved from one map to another, whose pass made a cluster
\* marker, and the listener on the first map is still subscribed.
C26_Witness ==
    /\ _map = "B"
    /\ \E l \in listeners : l.map = "A"
    /\ Len(_clusters) = 1
    /\ BagCardinality(overlay) = 1

\* C27: no step changes the visibility of a marker that is not in the list the
\* step leaves in this._markers: setMarkers and its pass touch only the
\* markers of the new list, and a marker of the previous list that is not in
\* the new one keeps the visibility it had through every later pass.
C27_OnlyListedMarkersChange ==
    [][\A m \in Markers : m \notin Range(_markers') => leafMap'[m] = leafMap[m]]_vars

\* setMarkers replaced a list holding m1 by one without it, a later pass ran to
\* its end, and m1 is still shown on the map the first list was clustered on.
C27_Witness ==
    /\ constructed = "yes"
    /\ _markers = <<"m2">>
    /\ lastPass = "complete"
    /\ leafMap["m1"] = _map
    /\ leafMap["m2"] = _map

\* C28: setMap(m) with m the map the engine is bound to, setMap(null) while
\* DETACHED included, changes nothing: no listener is added or removed, no
\* pass runs, and this._clusters, the cluster markers on the map and the
\* visibility of every leaf marker are what they were.
C28_SetMapToBoundMapIsNoOp ==
    [][\A m \in Maps \cup {NULL} :
          (m = _map /\ SetMap(m)) =>
             UNCHANGED <<_map, _markers, _clusters, overlay, leafMap, listeners,
                         _idleHandler, lastPass>>]_vars

\* An ATTACHED engine with one listener, a cluster marker and a hidden member:
\* setMap(_map) is a step from this state, and the state it leads to is this
\* state.
C28_Witness ==
    /\ constructed = "yes" /\ _map = "A" /\ requested = "A"
    /\ Cardinality(listeners) = 1
    /\ Len(_clusters) = 1
    /\ leafMap["m1"] = NULL
    /\ lastPass = "complete"
    /\ ENABLED SetMap("A")

\* C29: setMarkers while DETACHED only stores the list: no cluster marker is
\* made, no leaf marker changes visibility and no listener is bound; the pass
\* of the next attach is the first to cluster the list, and when it runs to
\* its end its cluster markers are those of the cells of that list.
C29_DetachedSetMarkersOnlyStores ==
    [][/\ \A ms \in MarkerLists :
            (_map = NULL /\ SetMarkers(ms)) =>
               /\ _markers' = ms
               /\ _clusters' = << >> /\ overlay' = EmptyBag
               /\ leafMap' = leafMap
               /\ listeners' = listeners /\ _idleHandler' = _idleHandler
               /\ _map' = NULL
       /\ (constructed = "yes" /\ _map = NULL /\ _map' # NULL /\ lastPass' = "complete") =>
             LET cs == GroupMarkers(_markers, proj[_map'], cfg.gridSize, Len(_markers))
             IN [i \in 1..Len(_clusters') |-> _clusters'[i].members]
                   = ClusteredCells(cs, Len(cs))]_vars

\* A DETACHED engine without any listener, whose last _recluster stopped at
\* the map check on a list of two entries, one of them a leaf marker that an
\* earlier run left visible: only setMarkers runs a pass in such a state.
C29_Witness ==
    /\ constructed = "yes" /\ _map = NULL
    /\ listeners = {}
    /\ lastPass = "nomap"
    /\ Len(_markers) = 2
    /\ \E m \in Range(_markers) : leafMap[m] # NULL
    /\ _clusters = << >>

\* C30: a pass clusters every cell with at least minClusterSize entries,
\* whatever the zoom level of the map and whatever maxZoom and
\* disableClickZoom the application passed, and every cluster marker has the
\* click-to-zoom handler.
C30_ClusteredAtEveryZoom ==
    (call.op = "pass" /\ call.view # NoProjection) =>
        /\ \A k \in 1..Len(CellsOfCall) :
              Len(CellsOfCall[k].members) >= ConfigOfCall.minClusterSize =>
                 \E i \in 1..Len(returned.clusters) :
                    /\ returned.clusters[i].members = CellsOfCall[k].members
                    /\ BagIn(returned.clusters[i], returned.overlay)
        /\ \A i \in 1..Len(returned.clusters) : returned.clusters[i].click = "zoom"

====
